---- MODULE Spec2Model ----
(***************************************************************************)
(* Model of the gitlab bridge configuration flow of git-bug,               *)
(* bridge/gitlab/config.go: Gitlab.Configure and the helpers it calls.     *)
(*                                                                         *)
(* Go strings are sequences of one-character strings.  An optional value   *)
(* (a nil-able pointer, interface or map) is a sequence of length 0 (nil)  *)
(* or 1.  An error is a sequence of messages, outermost wrapper first;     *)
(* the empty sequence is the nil error.                                    *)
(***************************************************************************)
EXTENDS Integers, Sequences, FiniteSets, TLC

(***************************************************************************)
(* Bounds of the model.                                                    *)
(***************************************************************************)
\* number of Configure calls in one behaviour
MaxRuns == 2
\* number of console lines read in one Configure call
MaxReads == 3
\* number of remotes of the repository
MaxRemotes == 3

(***************************************************************************)
(* Characters and string literals.                                         *)
(***************************************************************************)
Lower == {"a", "b", "c", "d", "e", "f", "g", "h", "i", "j", "k", "l", "m",
          "n", "o", "p", "q", "r", "s", "t", "u", "v", "w", "x", "y", "z"}
Upper == {"A", "B", "C", "D", "E", "F", "G", "H", "I", "J", "K", "L", "M",
          "N", "O", "P", "Q", "R", "S", "T", "U", "V", "W", "X", "Y", "Z"}
Letter == Lower \cup Upper
DigitSeq == <<"0", "1", "2", "3", "4", "5", "6", "7", "8", "9">>
Digit == {DigitSeq[i] : i \in 1..10}
Space == {" ", "\t", "\n", "\r"}

None == <<>>
Some(x) == <<x>>
NoErr == <<>>

target == <<"g", "i", "t", "l", "a", "b">>
defaultBaseURL == <<"h", "t", "t", "p", "s", ":", "/", "/", "g", "i", "t", "l", "a", "b", ".", "c", "o", "m", "/">>
ErrBadProjectURL == <<"bad project url">>

\* keys of core.Configuration
ConfigKeyTarget == "target"
keyProjectID == "projectId"
keyGitlabBaseUrl == "baseUrl"

(***************************************************************************)
(* Package strings.                                                        *)
(***************************************************************************)
Min(S) == CHOOSE x \in S : \A y \in S : x <= y
Max(S) == CHOOSE x \in S : \A y \in S : x >= y

HasPrefix(s, prefix) ==
    /\ Len(prefix) <= Len(s)
    /\ SubSeq(s, 1, Len(prefix)) = prefix

HasSuffix(s, suffix) ==
    /\ Len(suffix) <= Len(s)
    /\ SubSeq(s, Len(s) - Len(suffix) + 1, Len(s)) = suffix

TrimSuffix(s, suffix) ==
    IF HasSuffix(s, suffix) THEN SubSeq(s, 1, Len(s) - Len(suffix)) ELSE s

\* the 0-based positions at which sub occurs in s
Occurrences(s, sub) ==
    {i \in 0..(Len(s) - Len(sub)) : SubSeq(s, i + 1, i + Len(sub)) = sub}

Index(s, sub) ==
    IF Occurrences(s, sub) = {} THEN -1 ELSE Min(Occurrences(s, sub))

LastIndex(s, sub) ==
    IF Occurrences(s, sub) = {} THEN -1 ELSE Max(Occurrences(s, sub))

\* s[i:] and s[:i] with 0-based i
From(s, i) == SubSeq(s, i + 1, Len(s))
Upto(s, i) == SubSeq(s, 1, i)

\* strings.Replace(s, old, new, 1) for a non-empty old
Replace1(s, old, new) ==
    IF Index(s, old) < 0 THEN s
    ELSE Upto(s, Index(s, old)) \o new \o From(s, Index(s, old) + Len(old))

\* strings.Cut(s, sep), the part before and the part after the first sep
CutBefore(s, sep) == IF Index(s, sep) < 0 THEN s ELSE Upto(s, Index(s, sep))
CutAfter(s, sep) ==
    IF Index(s, sep) < 0 THEN <<>> ELSE From(s, Index(s, sep) + Len(sep))

TrimSpace(s) ==
    LET keep == {i \in 1..Len(s) : s[i] \notin Space}
    IN  IF keep = {} THEN <<>> ELSE SubSeq(s, Min(keep), Max(keep))

(***************************************************************************)
(* Package strconv.                                                        *)
(***************************************************************************)
DigitValue(c) == CHOOSE d \in 0..9 : DigitSeq[d + 1] = c

RECURSIVE ParseUint(_)
ParseUint(s) ==
    IF s = <<>> THEN 0
    ELSE 10 * ParseUint(SubSeq(s, 1, Len(s) - 1)) + DigitValue(s[Len(s)])

\* strconv.Atoi: an optional sign followed by one or more decimal digits
Atoi(s) ==
    LET signed == s # <<>> /\ s[1] \in {"+", "-"}
        body == IF signed THEN Tail(s) ELSE s
    IN  IF body = <<>> \/ \E i \in 1..Len(body) : body[i] \notin Digit
        THEN [ok |-> FALSE, n |-> 0]
        ELSE [ok |-> TRUE,
              n |-> IF signed /\ s[1] = "-" THEN 0 - ParseUint(body)
                    ELSE ParseUint(body)]

RECURSIVE FormatUint(_)
FormatUint(n) ==
    IF n < 10 THEN <<DigitSeq[n + 1]>>
    ELSE FormatUint(n \div 10) \o <<DigitSeq[(n % 10) + 1]>>

Itoa(n) == IF n < 0 THEN <<"-">> \o FormatUint(0 - n) ELSE FormatUint(n)

(***************************************************************************)
(* Package net/url: url.Parse, for inputs without '%' escapes and control  *)
(* characters.  The result keeps the fields the program reads.             *)
(***************************************************************************)
HostChar == Letter \cup Digit \cup
    {"-", "_", ".", "~", "!", "$", "&", "'", "(", ")", "*", "+", ",", ";",
     "=", ":", "[", "]", "<", ">"}
UserinfoChar == Letter \cup Digit \cup
    {"-", ".", "_", ":", "~", "!", "$", "&", "'", "(", ")", "*", "+", ",",
     ";", "=", "%", "@"}

validOptionalPort(port) ==
    \/ port = <<>>
    \/ /\ port[1] = ":"
       /\ \A i \in 2..Len(port) : port[i] \in Digit

parseHostOK(host) ==
    /\ IF HasPrefix(host, <<"[">>)
       THEN /\ LastIndex(host, <<"]">>) >= 0
            /\ validOptionalPort(From(host, LastIndex(host, <<"]">>) + 1))
       ELSE \/ LastIndex(host, <<":">>) < 0
            \/ validOptionalPort(From(host, LastIndex(host, <<":">>)))
    /\ \A i \in 1..Len(host) : host[i] \in HostChar

parseAuthorityOK(authority) ==
    LET i == LastIndex(authority, <<"@">>)
    IN  IF i < 0 THEN parseHostOK(authority)
        ELSE /\ parseHostOK(From(authority, i + 1))
             /\ \A k \in 1..i : authority[k] \in UserinfoChar

\* getscheme: the 1-based position of the first character that ends the scan
SchemeStop(rawurl) ==
    LET stops == {i \in 1..Len(rawurl) :
                    ~ \/ rawurl[i] \in Letter
                      \/ i > 1 /\ rawurl[i] \in Digit \cup {"+", "-", "."}}
    IN  IF stops = {} THEN 0 ELSE Min(stops)

\* getscheme: the scheme and what follows its colon
getscheme(rawurl) ==
    LET k == SchemeStop(rawurl)
    IN  IF k = 0 \/ rawurl[k] # ":"
        THEN [ok |-> TRUE, scheme |-> <<>>, rest |-> rawurl]
        ELSE IF k = 1
        THEN [ok |-> FALSE, scheme |-> <<>>, rest |-> <<>>]
        ELSE [ok |-> TRUE, scheme |-> Upto(rawurl, k - 1),
              rest |-> From(rawurl, k)]

\* parse, for what follows "//": the authority up to the next "/", then the
\* path
parseAuthorityAndPath(r) ==
    IF ~parseAuthorityOK(CutBefore(r, <<"/">>))
    THEN [ok |-> FALSE, Path |-> <<>>]
    ELSE [ok |-> TRUE,
          Path |-> IF Index(r, <<"/">>) < 0 THEN <<>>
                   ELSE From(r, Index(r, <<"/">>))]

\* parse, once the scheme and the query are split off
parseRest(hasScheme, rest) ==
    IF ~HasPrefix(rest, <<"/">>)
    THEN IF hasScheme
         THEN [ok |-> TRUE, Path |-> <<>>]
         ELSE IF Index(CutBefore(rest, <<"/">>), <<":">>) >= 0
         THEN [ok |-> FALSE, Path |-> <<>>]
         ELSE [ok |-> TRUE, Path |-> rest]
    ELSE IF /\ hasScheme \/ ~HasPrefix(rest, <<"/", "/", "/">>)
            /\ HasPrefix(rest, <<"/", "/">>)
    THEN parseAuthorityAndPath(From(rest, 2))
    ELSE [ok |-> TRUE, Path |-> rest]

urlParse(rawurl) ==
    LET s == getscheme(CutBefore(rawurl, <<"#">>))
    IN  IF CutBefore(rawurl, <<"#">>) = <<"*">>
        THEN [ok |-> TRUE, Path |-> <<"*">>]
        ELSE IF ~s.ok THEN [ok |-> FALSE, Path |-> <<>>]
        ELSE parseRest(s.scheme # <<>>, CutBefore(s.rest, <<"?">>))

(***************************************************************************)
(* getProjectPath.  objectUrl.Path[1:] panics on an empty path, so the     *)
(* outcome is a path, the error ErrBadProjectURL or a runtime panic.       *)
(***************************************************************************)
getProjectPath(projectUrl) ==
    LET cleanUrl == Replace1(TrimSuffix(projectUrl, <<".", "g", "i", "t">>),
                             <<"g", "i", "t", "@">>,
                             <<"h", "t", "t", "p", "s", ":", "/", "/">>)
        objectUrl == urlParse(cleanUrl)
    IN  IF ~objectUrl.ok
        THEN [kind |-> "err", path |-> <<>>, err |-> ErrBadProjectURL]
        ELSE IF Len(objectUrl.Path) < 1
        THEN [kind |-> "panic", path |-> <<>>, err |-> NoErr]
        ELSE [kind |-> "ok", path |-> Tail(objectUrl.Path), err |-> NoErr]

(***************************************************************************)
(* Byte order of strings (Go's < on strings), for sort.Sort(auth.ById).    *)
(***************************************************************************)
\* the printable ASCII characters in code order (without the double quote,
\* the backslash and the backquote, which no modelled string contains)
Ascii == <<" ", "!", "#", "$", "%", "&", "'", "(", ")", "*", "+",
           ",", "-", ".", "/", "0", "1", "2", "3", "4", "5", "6", "7",
           "8", "9", ":", ";", "<", "=", ">", "?", "@", "A", "B", "C",
           "D", "E", "F", "G", "H", "I", "J", "K", "L", "M", "N", "O",
           "P", "Q", "R", "S", "T", "U", "V", "W", "X", "Y", "Z", "[",
           "]", "^", "_", "a", "b", "c", "d", "e", "f", "g",
           "h", "i", "j", "k", "l", "m", "n", "o", "p", "q", "r", "s",
           "t", "u", "v", "w", "x", "y", "z", "{", "|", "}", "~">>
Ord(c) == CHOOSE i \in 1..Len(Ascii) : Ascii[i] = c

StringLess(a, b) ==
    \E i \in 1..(Len(b)) :
        /\ i - 1 <= Len(a)
        /\ SubSeq(a, 1, i - 1) = SubSeq(b, 1, i - 1)
        /\ \/ Len(a) = i - 1
           \/ Ord(a[i]) < Ord(b[i])

(***************************************************************************)
(* Package auth: credentials and the credential store of the repository.   *)
(* A credential is a record; the store is the set of stored credentials.   *)
(***************************************************************************)
KindToken == "token"
KindLoginPassword == "login-password"
DefaultUserId == <<"d", "e", "f", "a", "u", "l", "t">>
ErrNoIdentitySet == <<"no identity set">>

\* the identifier of a credential: a digest of its content without the
\* creation time; the digest is taken to be collision free
ID(c) == c.Value \o <<"-">> \o c.userId \o <<"-">> \o c.target
             \o <<"-">> \o <<c.kind>>

NewToken(uid, value, tgt, now) ==
    [kind |-> KindToken, userId |-> uid, target |-> tgt, Value |-> value,
     createTime |-> now]

IdExist(s, id) == \E c \in s : ID(c) = id

\* auth.LoadWithPrefix: the credentials whose identifier starts with prefix
PrefixMatches(s, prefix) == {c \in s : HasPrefix(ID(c), prefix)}

\* auth.List(repo, WithUserId(uid), WithTarget(tgt), WithKind(kind))
List(s, uid, tgt, kind) ==
    {c \in s : c.userId = uid /\ c.target = tgt /\ c.kind = kind}

\* sort.Sort(auth.ById(creds)): ascending identifiers
RECURSIVE SortById(_)
SortById(S) ==
    IF S = {} THEN <<>>
    ELSE LET m == CHOOSE c \in S :
                    \A d \in S \ {c} : StringLess(ID(c), ID(d))
         IN  <<m>> \o SortById(S \ {m})

(***************************************************************************)
(* The inputs of the model: parameters of Configure, the content of the    *)
(* credential store before the first call, and the answers of the          *)
(* environment (identity provider, console, remote API).                   *)
(***************************************************************************)
SSHRef == <<"g", "i", "t", "@", "g", "i", "t", "l", "a", "b", ".", "e", "x", "a", "m", "p", "l", "e", ".", "c", "o", "m", ":", "g", "r", "o", "u", "p", "/", "p", "r", "o", "j", "e", "c", "t", ".", "g", "i", "t">>
HTTPSRef == <<"h", "t", "t", "p", "s", ":", "/", "/", "g", "i", "t", "l", "a", "b", ".", "e", "x", "a", "m", "p", "l", "e", ".", "c", "o", "m", "/", "g", "r", "o", "u", "p", "/", "p", "r", "o", "j", "e", "c", "t">>
BareHostRef == <<"h", "t", "t", "p", "s", ":", "/", "/", "g", "i", "t", "l", "a", "b", ".", "e", "x", "a", "m", "p", "l", "e", ".", "c", "o", "m">>
ExampleBaseURL == <<"h", "t", "t", "p", "s", ":", "/", "/", "g", "i", "t", "l", "a", "b", ".", "e", "x", "a", "m", "p", "l", "e", ".", "c", "o", "m">>
GroupProject == <<"g", "r", "o", "u", "p", "/", "p", "r", "o", "j", "e", "c", "t">>
Tok20 == <<"a", "b", "c", "d", "e", "f", "g", "h", "i", "j", "0", "1", "2", "3", "4", "5", "6", "7", "8", "9">>

User1 == <<"u", "1">>
User2 == <<"u", "2">>
Users == {User1, User2}

URLs == {<<>>, SSHRef, HTTPSRef, BareHostRef}
BaseURLs == {<<>>, ExampleBaseURL, defaultBaseURL}
CredPrefixes == {<<>>, <<"t", "A">>, <<"t", "C">>, <<"t">>, <<"p", "w">>,
                 <<"z", "z">>}
TokenRaws == {<<>>, <<"t", "A">>}

BridgeParams ==
    [URL : URLs, BaseURL : BaseURLs, CredPrefix : CredPrefixes,
     TokenRaw : TokenRaws]

StoredCredentials ==
    { NewToken(User1, <<"t", "A">>, target, 0),
      NewToken(User1, <<"t", "B">>, target, 0),
      NewToken(User2, <<"t", "C">>, target, 0),
      NewToken(User1, <<"t", "G">>, <<"g", "i", "t", "h", "u", "b">>, 0),
      [kind |-> KindLoginPassword, userId |-> User1, target |-> target,
       Value |-> <<"p", "w">>, createTime |-> 0] }
InitialStores == {{}, StoredCredentials}

\* repo.GetUserIdentity()
IdentityResults ==
    {[user |-> Some(u), err |-> NoErr] : u \in Users}
    \cup {[user |-> None, err |-> ErrNoIdentitySet],
          [user |-> None, err |-> <<"identity: read error">>]}

\* bufio.NewReader(os.Stdin).ReadString('\n'): the console delivers one of
\* the scripts below, line by line, and can fail (end of input) at any read
Line(s) == s \o <<"\n">>
Tok20Tail == Tok20 \o <<" ", "!", "!">>
HasSpaces == <<"h", "a", "s", " ", "s", "p", "a", "c", "e", "s", "!", "!">>
Scripts ==
    { <<Line(<<"a", "b", "c">>), Line(<<"9", "9">>), Line(<<"2">>)>>,
      <<Line(<<"1">>), Line(<<"s", "h", "o", "r", "t">>), Line(Tok20)>>,
      <<Line(<<"1">>), Line(HasSpaces), Line(Tok20Tail)>>,
      <<Line(<<" ", "3">>)>>,
      <<Line(Tok20)>>,
      <<Line(<<"s", "h", "o", "r", "t">>), Line(HasSpaces), Line(Tok20Tail)>>,
      <<Line(<<"a", "b", "c">>), Line(<<"9", "9">>), Line(<<"1">>),
        Line(Tok20)>> }
Lines == UNION {{s[i] : i \in 1..Len(s)} : s \in Scripts}
EOF == <<"EOF">>
\* the results the next read can have after the reads c
ReadResults(c) ==
    {[line |-> <<>>, err |-> EOF]}
    \cup {[line |-> l, err |-> NoErr] : l \in
            {l \in Lines :
                /\ Len(c) < MaxReads
                /\ \E s \in Scripts :
                    /\ Len(c) < Len(s)
                    /\ s[Len(c) + 1] = l
                    /\ \A i \in 1..Len(c) : c[i].line = s[i]}}

\* the lines typed at the prompts of promptURL
URLLines ==
    { <<"0", "\n">>, <<"1", "\n">>, <<" ", "2", " ", "\n">>, <<"7", "\n">>,
      <<"x", "\n">>, <<" ", "\n">>, HTTPSRef \o <<"\n">> }
ReadURLResults(n) ==
    {[line |-> <<>>, err |-> EOF]}
    \cup IF n < MaxReads THEN {[line |-> l, err |-> NoErr] : l \in URLLines}
         ELSE {}

\* repo.GetRemotes(): the remote URLs in the order the map is iterated
GitlabComRef == <<"h", "t", "t", "p", "s", ":", "/", "/", "g", "i", "t", "l", "a", "b", ".", "c", "o", "m", "/", "g", "r", "o", "u", "p", "/", "p", "r", "o", "j", "e", "c", "t", ".", "g", "i", "t">>
GitlabComSSHRef == <<"g", "i", "t", "@", "g", "i", "t", "l", "a", "b", ".", "c", "o", "m", ":", "g", "r", "o", "u", "p", "/", "p", "r", "o", "j", "e", "c", "t", ".", "g", "i", "t">>
GithubRef == <<"h", "t", "t", "p", "s", ":", "/", "/", "g", "i", "t", "h", "u", "b", ".", "c", "o", "m", "/", "o", "w", "n", "e", "r", "/", "r", "e", "p", "o">>
RemotesResults ==
    {[remotes |-> r, err |-> NoErr] :
        r \in { <<>>, <<GitlabComRef>>, <<GithubRef, GitlabComRef>>,
                <<GitlabComRef, GithubRef>>, <<GitlabComSSHRef>>,
                <<GitlabComRef, BareHostRef>> }}
    \cup {[remotes |-> <<>>, err |-> <<"git remote: exit status 128">>]}

\* client.Projects.GetProject(projectPath, ...)
ProjectIds == {7, 42}
RemoteFailures == {<<"404 Not Found">>, <<"401 Unauthorized">>,
                   <<"transport error">>}
RemoteReplies ==
    {[id |-> n, err |-> NoErr] : n \in ProjectIds}
    \cup {[id |-> 0, err |-> e] : e \in RemoteFailures}

\* buildClient(baseURL, token)
ClientErrors == {NoErr, <<"build client error">>}
\* auth.List and auth.Store
ListErrors == {NoErr, <<"list credentials error">>}
StoreErrors == {NoErr, <<"store credential error">>}

ErrMissingURL ==
    <<"you must provide a project URL to configure this bridge with a token">>
ErrBaseURL == <<"base URL doesn't match the project URL">>
ErrLoadWithPrefix == <<"no unique credential matching the prefix">>
ErrUserMismatch == <<"selected credential don't match the user">>
ErrUnsupportedKind == <<"the Gitlab bridge only handle token credentials">>
Wrap(err, message) == <<message>> \o err

(***************************************************************************)
(* The decisions and pure parts of config.go.                              *)
(***************************************************************************)
\* variant of line 42 with && in place of ||
MissingURLForCredential_and(p) ==
    (p.CredPrefix # <<>> /\ p.TokenRaw # <<>>) /\ p.URL = <<>>

\* Configure, line 42
MissingURLForCredential(p) ==
    (p.CredPrefix # <<>> \/ p.TokenRaw # <<>>) /\ p.URL = <<>>

\* Configure, lines 46-48
DefaultURL(p) ==
    IF p.URL = <<>> THEN [p EXCEPT !.URL = defaultBaseURL] ELSE p

\* variant of line 64 that lets every project URL through
BaseURLMatches_any(u, baseURL) == TRUE

\* Configure, line 64
BaseURLMatches(u, baseURL) == HasPrefix(u, baseURL)

\* variant of lines 81-97 with the TokenRaw case first
Strategy_rawFirst(p) ==
    IF p.TokenRaw # <<>> THEN "ByRawValue"
    ELSE IF p.CredPrefix # <<>> THEN "ByReference"
    ELSE "Interactive"

\* Configure, lines 81-97: the switch takes the first case that applies
Strategy(p) ==
    IF p.CredPrefix # <<>> THEN "ByReference"
    ELSE IF p.TokenRaw # <<>> THEN "ByRawValue"
    ELSE "Interactive"

\* Configure, lines 74-77
UserIdOf(u) == IF u # None THEN u[1] ELSE DefaultUserId

\* variant of line 87 with == in place of !=
UserMismatch_eq(u, c) == u # None /\ c.userId = u[1]

\* Configure, line 87
UserMismatch(u, c) == u # None /\ c.userId # u[1]

\* variant of line 99 without the type assertion
IsToken_any(c) == TRUE

\* Configure, line 99: cred.(*auth.Token)
IsToken(c) == c.kind = KindToken

\* variant of lines 110-112 without line 112
BuildConf_noBaseUrl(c, projectID, baseURL) ==
    (ConfigKeyTarget :> target) @@ (keyProjectID :> Itoa(projectID)) @@ c

\* Configure, lines 110-112
BuildConf(c, projectID, baseURL) ==
    (ConfigKeyTarget :> target) @@ (keyProjectID :> Itoa(projectID))
        @@ (keyGitlabBaseUrl :> baseURL) @@ c

\* variant of line 120 without the existence check
NeedStore_always(s, c) == TRUE

\* Configure, line 120
NeedStore(s, c) == ~IdExist(s, ID(c))

ValidateConfig(c) ==
    IF ConfigKeyTarget \notin DOMAIN c THEN <<"missing target key">>
    ELSE IF c[ConfigKeyTarget] # target THEN <<"unexpected target name">>
    ELSE IF keyProjectID \notin DOMAIN c THEN <<"missing project id key">>
    ELSE NoErr

\* variant of line 188 that takes the last option for out of range
ValidOption_short(index, n) == index.ok /\ index.n >= 1 /\ index.n <= n

\* promptTokenOptions, line 188
ValidOption(index, n) == index.ok /\ index.n >= 1 /\ index.n <= n + 1

\* promptToken, lines 213 and 227: the regexp ^[a-zA-Z0-9\-]{20}
TokenLen == 20
TokenChar == Letter \cup Digit \cup {"-"}
TokenMatch(token) ==
    /\ Len(token) >= TokenLen
    /\ \A i \in 1..TokenLen : token[i] \in TokenChar

\* the host literal of line 315
TargetHost == <<"g", "i", "t", "l", "a", "b", ".", "c", "o", "m">>

\* getValidGitlabRemoteURLs over the remotes in iteration order; a panic of
\* getProjectPath ends it
RECURSIVE getValidGitlabRemoteURLs(_)
getValidGitlabRemoteURLs(remotes) ==
    IF remotes = <<>> THEN [kind |-> "ok", urls |-> <<>>]
    ELSE LET before == getValidGitlabRemoteURLs(
                           SubSeq(remotes, 1, Len(remotes) - 1))
             path == getProjectPath(remotes[Len(remotes)])
         IN  IF before.kind = "panic" \/ path.kind = "panic"
             THEN [kind |-> "panic", urls |-> <<>>]
             ELSE IF path.kind = "err" THEN before
             ELSE [kind |-> "ok",
                   urls |-> Append(before.urls,
                                   <<"g", "i", "t", "l", "a", "b", ".", "c",
                                     "o", "m">> \o path.path)]

\* variant of line 263 that takes 0 for out of range
ValidRemoteOption_from1(index, n) == index.ok /\ index.n >= 1 /\ index.n <= n

\* promptURL, line 263
ValidRemoteOption(index, n) == index.ok /\ index.n >= 0 /\ index.n <= n

\* variant of validateProjectURL that drops the error of GetProject
validateProjectURL_ignoreErr(baseURL, u, token, clientErr, reply) ==
    LET projectPath == getProjectPath(u)
    IN  IF projectPath.kind = "panic"
        THEN [kind |-> "panic", id |-> 0, err |-> NoErr, lookup |-> None]
        ELSE IF projectPath.kind = "err"
        THEN [kind |-> "err", id |-> 0, err |-> projectPath.err,
              lookup |-> None]
        ELSE IF clientErr # NoErr
        THEN [kind |-> "err", id |-> 0, err |-> clientErr, lookup |-> None]
        ELSE [kind |-> "ok", id |-> reply.id, err |-> NoErr,
              lookup |-> Some(projectPath.path)]

\* validateProjectURL, with the outcome of buildClient and the reply of the
\* remote to GetProject as parameters; lookup is the path that was looked up
validateProjectURL(baseURL, u, token, clientErr, reply) ==
    LET projectPath == getProjectPath(u)
    IN  IF projectPath.kind = "panic"
        THEN [kind |-> "panic", id |-> 0, err |-> NoErr, lookup |-> None]
        ELSE IF projectPath.kind = "err"
        THEN [kind |-> "err", id |-> 0, err |-> projectPath.err,
              lookup |-> None]
        ELSE IF clientErr # NoErr
        THEN [kind |-> "err", id |-> 0, err |-> clientErr, lookup |-> None]
        ELSE IF reply.err # NoErr
        THEN [kind |-> "err", id |-> 0, err |-> reply.err,
              lookup |-> Some(projectPath.path)]
        ELSE [kind |-> "ok", id |-> reply.id, err |-> NoErr,
              lookup |-> Some(projectPath.path)]

(***************************************************************************)
(* State.                                                                  *)
(***************************************************************************)
VARIABLES
    pc,        \* position of the program: "idle" between two calls
    runs,      \* number of Configure calls so far; also the clock
    args,      \* the params Configure was called with
    params,    \* the local params (line 47 assigns params.URL)
    url,       \* local url
    user,      \* local user: None is nil
    userId,    \* local userId
    cred,      \* local cred: None is nil
    creds,     \* local creds of promptTokenOptions, sorted
    validRemotes, \* local validRemotes of promptURL
    conf,      \* local conf
    id,        \* local id
    project,   \* reply of the remote to the lookup of this call, if any
    lookup,    \* path handed to the lookup of this call, if any
    retConf,   \* returned core.Configuration: None is nil
    retErr,    \* returned error
    store,     \* the credential store of the repository
    store0,    \* the store when the current call started
    calls,     \* external calls of the current call, in order
    reads,     \* number of console lines read by the current call
    console,   \* results of the ReadString calls of the current call
    remotes,   \* result of the GetRemotes call of the current call, if any
    arg,       \* argument of a function called on its own
    result     \* what that function returned

vars == <<pc, runs, args, params, url, user, userId, cred, creds,
          validRemotes, conf, id,
          project, lookup, retConf, retErr, store, store0, calls, reads,
          console, remotes, arg, result>>

NoParams ==
    [URL |-> <<>>, BaseURL |-> <<>>, CredPrefix |-> <<>>, TokenRaw |-> <<>>]
EmptyConf == <<>>

Locals ==
    /\ args = NoParams
    /\ params = NoParams
    /\ url = <<>>
    /\ user = None
    /\ userId = DefaultUserId
    /\ cred = None
    /\ creds = <<>>
    /\ validRemotes = <<>>
    /\ conf = EmptyConf
    /\ id = 0
    /\ project = None
    /\ lookup = None
    /\ retConf = None
    /\ retErr = NoErr
    /\ calls = <<>>
    /\ reads = 0
    /\ console = <<>>
    /\ remotes = None
    /\ arg = None
    /\ result = None

Init ==
    /\ pc = "idle"
    /\ runs = 0
    /\ store \in InitialStores
    /\ store0 = store
    /\ Locals

(***************************************************************************)
(* Configure.                                                              *)
(***************************************************************************)
\* variant of the error returns that hands back conf with the error
Abort_conf(e) ==
    /\ pc' = "returned"
    /\ retConf' = Some(conf)
    /\ retErr' = e

\* return nil, err
Abort(e) ==
    /\ pc' = "returned"
    /\ retConf' = None
    /\ retErr' = e

\* lines 99-102, after the switch has set cred to c
CheckKind(c) ==
    IF IsToken(c)
    THEN pc' = "validateProjectURL" /\ UNCHANGED <<retConf, retErr>>
    ELSE Abort(ErrUnsupportedKind)

\* lines 31-66 with the URL parameter: entry, parameter check, project URL
\* and base URL check (the two warnings of lines 32-37 only print)
Configure(p) ==
    /\ pc = "idle"
    /\ runs < MaxRuns
    /\ runs' = runs + 1
    /\ args' = p
    /\ store0' = store
    /\ UNCHANGED <<user, userId, cred, creds, validRemotes, conf, id,
                   project, lookup, store, calls, reads, console, remotes,
                   arg, result>>
    /\ IF MissingURLForCredential(p)
       THEN /\ Abort(ErrMissingURL)
            /\ UNCHANGED <<params, url>>
       ELSE /\ params' = DefaultURL(p)
            /\ IF params'.URL # <<>>
               THEN /\ url' = params'.URL
                    /\ IF BaseURLMatches(url', params'.BaseURL)
                       THEN /\ pc' = "GetUserIdentity"
                            /\ UNCHANGED <<retConf, retErr>>
                       ELSE Abort(ErrBaseURL)
               ELSE /\ pc' = "promptURL"
                    /\ UNCHANGED <<url, retConf, retErr>>

\* lines 58-66, once promptURL has returned u
URLPrompted(u) ==
    /\ url' = u
    /\ IF BaseURLMatches(u, params.BaseURL)
       THEN pc' = "GetUserIdentity" /\ UNCHANGED <<retConf, retErr>>
       ELSE Abort(ErrBaseURL)

\* promptURL, lines 236-243: the remotes and the candidates
PromptURL ==
    /\ pc = "promptURL"
    /\ calls' = Append(calls, "GetRemotes")
    /\ UNCHANGED <<runs, args, params, user, userId, cred, creds, conf, id,
                   project, lookup, store, store0, reads, console, arg,
                   result>>
    /\ \E r \in RemotesResults :
      /\ remotes' = Some(r)
      /\
        IF r.err # NoErr
        THEN /\ Abort(Wrap(Wrap(r.err, "getting remotes"), "url prompt"))
             /\ UNCHANGED <<url, validRemotes>>
        ELSE \E v \in {getValidGitlabRemoteURLs(r.remotes)} :
                IF v.kind = "panic"
                THEN /\ pc' = "panicked"
                     /\ UNCHANGED <<url, validRemotes, retConf, retErr>>
                ELSE /\ validRemotes' = v.urls
                     /\ pc' = IF Len(v.urls) > 0 THEN "selectRemote"
                              ELSE "enterURL"
                     /\ UNCHANGED <<url, retConf, retErr>>

\* promptURL, lines 244-274: the menu of candidates
SelectRemote ==
    /\ pc = "selectRemote"
    /\ calls' = Append(calls, "ReadString")
    /\ reads' = reads + 1
    /\ UNCHANGED <<remotes, arg, result>>
    /\ UNCHANGED <<runs, validRemotes, args, params, user, userId, cred,
                   creds, conf, id, project, lookup, store, store0>>
    /\ \E r \in ReadURLResults(reads) :
      /\ console' = Append(console, r)
      /\
        LET index == Atoi(TrimSpace(r.line))
        IN  IF r.err # NoErr
            THEN Abort(Wrap(r.err, "url prompt")) /\ UNCHANGED url
            ELSE IF ~ValidRemoteOption(index, Len(validRemotes))
            THEN UNCHANGED <<pc, url, retConf, retErr>>
            ELSE IF index.n = 0
            THEN pc' = "enterURL" /\ UNCHANGED <<url, retConf, retErr>>
            ELSE URLPrompted(validRemotes[index.n])

\* promptURL, lines 277-293: the URL typed by the operator
EnterURL ==
    /\ pc = "enterURL"
    /\ calls' = Append(calls, "ReadString")
    /\ reads' = reads + 1
    /\ UNCHANGED <<remotes, arg, result>>
    /\ UNCHANGED <<runs, validRemotes, args, params, user, userId, cred,
                   creds, conf, id, project, lookup, store, store0>>
    /\ \E r \in ReadURLResults(reads) :
      /\ console' = Append(console, r)
      /\
        IF r.err # NoErr
        THEN Abort(Wrap(r.err, "url prompt")) /\ UNCHANGED url
        ELSE IF TrimSpace(r.line) = <<>>
        THEN UNCHANGED <<pc, url, retConf, retErr>>
        ELSE URLPrompted(TrimSpace(r.line))

\* lines 68-97: identity, userId and the switch up to its first external call
GetUserIdentity ==
    /\ pc = "GetUserIdentity"
    /\ calls' = Append(calls, "GetUserIdentity")
    /\ UNCHANGED <<runs, validRemotes, args, params, url, creds, conf, id, project,
                   lookup, store, store0, reads, console, remotes,
                   arg, result>>
    /\ \E r \in IdentityResults :
        IF r.err # NoErr /\ r.err # ErrNoIdentitySet
        THEN /\ Abort(r.err)
             /\ UNCHANGED <<user, userId, cred>>
        ELSE /\ user' = r.user
             /\ userId' = UserIdOf(r.user)
             /\ CASE Strategy(params) = "ByReference" ->
                       /\ pc' = "LoadWithPrefix"
                       /\ UNCHANGED <<cred, retConf, retErr>>
                  [] Strategy(params) = "ByRawValue" ->
                       /\ cred' = Some(NewToken(userId', params.TokenRaw,
                                                target, runs))
                       /\ CheckKind(cred'[1])
                  [] OTHER ->
                       /\ pc' = "promptTokenOptions"
                       /\ UNCHANGED <<cred, retConf, retErr>>

\* lines 83-89
LoadWithPrefix ==
    /\ pc = "LoadWithPrefix"
    /\ calls' = Append(calls, "LoadWithPrefix")
    /\ UNCHANGED <<runs, validRemotes, args, params, url, user, userId, creds, conf, id,
                   project, lookup, store, store0, reads, console, remotes,
                   arg, result>>
    /\ LET matches == PrefixMatches(store, params.CredPrefix)
       IN  IF Cardinality(matches) # 1
           THEN Abort(ErrLoadWithPrefix) /\ UNCHANGED cred
           ELSE /\ cred' = Some(CHOOSE c \in matches : TRUE)
                /\ IF UserMismatch(user, cred'[1])
                   THEN Abort(ErrUserMismatch)
                   ELSE CheckKind(cred'[1])

\* promptTokenOptions, lines 145-178: list, sort and show the menu
PromptTokenOptions ==
    /\ pc = "promptTokenOptions"
    /\ calls' = Append(calls, "List")
    /\ UNCHANGED <<runs, validRemotes, args, params, url, user, userId, cred, conf, id,
                   project, lookup, store, store0, reads, console, remotes,
                   arg, result>>
    /\ \E e \in ListErrors :
        IF e # NoErr
        THEN Abort(e) /\ UNCHANGED creds
        ELSE /\ creds' = SortById(List(store, userId, target, KindToken))
             /\ pc' = IF Len(creds') = 0 THEN "promptToken"
                      ELSE "selectOption"
             /\ UNCHANGED <<retConf, retErr>>

\* promptTokenOptions, lines 180-202: read and interpret the selection
SelectOption ==
    /\ pc = "selectOption"
    /\ calls' = Append(calls, "ReadString")
    /\ reads' = reads + 1
    /\ UNCHANGED <<remotes, arg, result>>
    /\ UNCHANGED <<runs, validRemotes, args, params, url, user, userId, creds, conf, id,
                   project, lookup, store, store0>>
    /\ \E r \in ReadResults(console) :
      /\ console' = Append(console, r)
      /\
        LET index == Atoi(TrimSpace(r.line))
        IN  IF r.err # NoErr
            THEN Abort(r.err) /\ UNCHANGED cred
            ELSE IF ~ValidOption(index, Len(creds))
            THEN /\ pc' = "promptTokenOptions"
                 /\ UNCHANGED <<cred, retConf, retErr>>
            ELSE IF index.n = 1
            THEN /\ pc' = "promptToken"
                 /\ UNCHANGED <<cred, retConf, retErr>>
            ELSE /\ cred' = Some(creds[index.n - 1])
                 /\ CheckKind(cred'[1])

\* promptToken, lines 218-232, and the NewToken of its caller
PromptToken ==
    /\ pc = "promptToken"
    /\ calls' = Append(calls, "ReadString")
    /\ reads' = reads + 1
    /\ UNCHANGED <<remotes, arg, result>>
    /\ UNCHANGED <<runs, validRemotes, args, params, url, user, userId, creds, conf, id,
                   project, lookup, store, store0>>
    /\ \E r \in ReadResults(console) :
      /\ console' = Append(console, r)
      /\
        LET token == TrimSpace(r.line)
        IN  IF r.err # NoErr
            THEN Abort(r.err) /\ UNCHANGED cred
            ELSE IF TokenMatch(token)
            THEN /\ cred' = Some(NewToken(userId, token, target, runs))
                 /\ CheckKind(cred'[1])
            ELSE UNCHANGED <<pc, cred, retConf, retErr>>

\* lines 104-117: validateProjectURL, the Configuration and ValidateConfig
ValidateProjectURL ==
    /\ pc = "validateProjectURL"
    /\ UNCHANGED <<runs, validRemotes, args, params, url, user, userId, cred, creds,
                   store, store0, reads, console, remotes,
                   arg, result>>
    /\ \E clientErr \in ClientErrors, reply \in RemoteReplies :
        \E r \in {validateProjectURL(params.BaseURL, url, cred[1],
                                     clientErr, reply)} :
            /\ lookup' = r.lookup
            /\ project' = IF r.lookup # None THEN Some(reply) ELSE None
            /\ calls' = IF r.lookup # None THEN Append(calls, "GetProject")
                        ELSE calls
            /\ IF r.kind = "panic"
               THEN /\ pc' = "panicked"
                    /\ UNCHANGED <<conf, id, retConf, retErr>>
               ELSE IF r.kind = "err"
               THEN /\ Abort(Wrap(r.err, "project validation"))
                    /\ id' = r.id
                    /\ UNCHANGED conf
               ELSE /\ id' = r.id
                    /\ conf' = BuildConf(conf, id', params.BaseURL)
                    /\ IF ValidateConfig(conf') # NoErr
                       THEN Abort(ValidateConfig(conf'))
                       ELSE /\ pc' = "persist"
                            /\ UNCHANGED <<retConf, retErr>>

\* lines 119-127: store the credential unless its id exists, and return
Persist ==
    /\ pc = "persist"
    /\ UNCHANGED <<runs, validRemotes, args, params, url, user, userId, cred, creds, conf,
                   id, project, lookup, store0, reads, console, remotes,
                   arg, result>>
    /\ IF NeedStore(store, cred[1])
       THEN /\ calls' = calls \o <<"IdExist", "Store">>
            /\ \E e \in StoreErrors :
                IF e # NoErr
                THEN Abort(e) /\ UNCHANGED store
                ELSE /\ store' = store \cup {cred[1]}
                     /\ pc' = "returned"
                     /\ retConf' = Some(conf)
                     /\ retErr' = NoErr
       ELSE /\ calls' = Append(calls, "IdExist")
            /\ pc' = "returned"
            /\ retConf' = Some(conf)
            /\ retErr' = NoErr
            /\ UNCHANGED store

\* the caller takes the result; the next call starts with fresh locals
Return ==
    /\ pc = "returned"
    /\ pc' = "idle"
    /\ args' = NoParams
    /\ params' = NoParams
    /\ url' = <<>>
    /\ user' = None
    /\ userId' = DefaultUserId
    /\ cred' = None
    /\ creds' = <<>>
    /\ validRemotes' = <<>>
    /\ conf' = EmptyConf
    /\ id' = 0
    /\ project' = None
    /\ lookup' = None
    /\ retConf' = None
    /\ retErr' = NoErr
    /\ calls' = <<>>
    /\ reads' = 0
    /\ console' = <<>>
    /\ remotes' = None
    /\ store0' = store
    /\ UNCHANGED <<runs, store, arg, result>>

Next ==
    \/ \E p \in BridgeParams : Configure(p)
    \/ GetUserIdentity
    \/ LoadWithPrefix
    \/ PromptTokenOptions
    \/ SelectOption
    \/ PromptToken
    \/ ValidateProjectURL
    \/ Persist
    \/ Return

Spec == Init /\ [][Next]_vars

(***************************************************************************)
(* promptURL on its own.  Configure never reaches its call of promptURL    *)
(* (line 47 leaves params.URL non-empty), so this specification starts at  *)
(* that call, with the parameters of a call without URL and credential.    *)
(***************************************************************************)
InitPromptURL ==
    /\ pc = "promptURL"
    /\ runs = 1
    /\ store \in InitialStores
    /\ store0 = store
    /\ \E b \in BaseURLs :
        /\ args = [NoParams EXCEPT !.BaseURL = b]
        /\ params = args
    /\ url = <<>>
    /\ user = None
    /\ userId = DefaultUserId
    /\ cred = None
    /\ creds = <<>>
    /\ validRemotes = <<>>
    /\ conf = EmptyConf
    /\ id = 0
    /\ project = None
    /\ lookup = None
    /\ retConf = None
    /\ retErr = NoErr
    /\ calls = <<>>
    /\ reads = 0
    /\ console = <<>>
    /\ remotes = None
    /\ arg = None
    /\ result = None

NextPromptURL ==
    \/ PromptURL
    \/ SelectRemote
    \/ EnterURL

SpecPromptURL == InitPromptURL /\ [][NextPromptURL]_vars

(***************************************************************************)
(* Functions called on their own: arg holds the argument, an action        *)
(* applies the function and puts what it returned in result.               *)
(***************************************************************************)
\* the state of a call of a function: nothing of Configure is under way
Called(f) ==
    /\ pc = f
    /\ runs = 0
    /\ store = {}
    /\ store0 = {}
    /\ args = NoParams
    /\ params = NoParams
    /\ url = <<>>
    /\ user = None
    /\ userId = DefaultUserId
    /\ cred = None
    /\ creds = <<>>
    /\ validRemotes = <<>>
    /\ conf = EmptyConf
    /\ id = 0
    /\ project = None
    /\ lookup = None
    /\ retConf = None
    /\ retErr = NoErr
    /\ calls = <<>>
    /\ reads = 0
    /\ console = <<>>
    /\ remotes = None
    /\ result = None

\* the function returns r to its caller
Returns(f, r) ==
    /\ pc = f
    /\ pc' = "done"
    /\ result' = Some(r)
    /\ UNCHANGED <<runs, args, params, url, user, userId, cred, creds,
                   validRemotes, conf, id, project, lookup, retConf, retErr,
                   store, store0, calls, reads, console, remotes, arg>>

\* ValidateConfig, lines 130-142, on any mapping of the three keys
ConfKeys == {ConfigKeyTarget, keyProjectID, keyGitlabBaseUrl}
ConfValues == {target, <<"g", "i", "t", "h", "u", "b">>, <<"4", "2">>,
               ExampleBaseURL}
Configurations == UNION {[K -> ConfValues] : K \in SUBSET ConfKeys}

InitValidateConfig == Called("ValidateConfig") /\ arg \in Configurations

\* the map is passed by reference and only read: the caller has it as it was
CallValidateConfig ==
    Returns("ValidateConfig", [err |-> ValidateConfig(arg), conf |-> arg])

SpecValidateConfig == InitValidateConfig /\ [][CallValidateConfig]_vars

\* getValidGitlabRemoteURLs, lines 307-319, on the URLs of up to MaxRemotes
\* remotes, in the order the range over the map visits them
RemoteRefs == {GitlabComRef, GitlabComSSHRef, GithubRef, HTTPSRef, BareHostRef}
RECURSIVE SeqsUpTo(_, _)
SeqsUpTo(S, n) ==
    IF n = 0 THEN {<<>>}
    ELSE SeqsUpTo(S, n - 1)
         \cup {Append(q, x) : q \in {q \in SeqsUpTo(S, n - 1) : Len(q) = n - 1},
                              x \in S}

InitRemoteDiscovery ==
    Called("getValidGitlabRemoteURLs") /\ arg \in SeqsUpTo(RemoteRefs, MaxRemotes)

CallRemoteDiscovery ==
    \E r \in {getValidGitlabRemoteURLs(arg)} :
        Returns("getValidGitlabRemoteURLs", r)

SpecRemoteDiscovery == InitRemoteDiscovery /\ [][CallRemoteDiscovery]_vars

\* getProjectPath, lines 296-305, on the references of the projects
\* HOST/NAMESPACE/NAME in their SSH and HTTPS styles, and on other strings
Hosts == {TargetHost,
          <<"g", "i", "t", "l", "a", "b", ".", "e", "x", "a", "m", "p", "l",
            "e", ".", "c", "o", "m">>,
          <<"h">>}
Namespaces == {<<"g", "r", "o", "u", "p">>, <<"g">>, <<"4", "2">>}
Names == {<<"p", "r", "o", "j", "e", "c", "t">>, <<"p">>, <<"a", "-", "b">>}
DotGit == <<".", "g", "i", "t">>
SSHStyle(h, ns, n) ==
    <<"g", "i", "t", "@">> \o h \o <<":">> \o ns \o <<"/">> \o n \o DotGit
HTTPSStyle(h, ns, n) ==
    <<"h", "t", "t", "p", "s", ":", "/", "/">> \o h \o <<"/">> \o ns
        \o <<"/">> \o n
StylesOf(h, ns, n) ==
    {SSHStyle(h, ns, n), HTTPSStyle(h, ns, n), HTTPSStyle(h, ns, n) \o DotGit}
OtherRefs ==
    {<<>>, DotGit, <<"g", "i", "t", "@">>, <<"m", ":", "x">>,
     <<":", "/", "/">>, <<"/">>, <<"g", "r", "o", "u", "p">>}
    \cup {<<"h", "t", "t", "p", "s", ":", "/", "/">> \o h : h \in Hosts}
    \cup {<<"h", "t", "t", "p", "s", ":", "/", "/">> \o h \o <<"/">> :
            h \in Hosts}
ProjectRefs ==
    OtherRefs
    \cup UNION {StylesOf(h, ns, n) : h \in Hosts, ns \in Namespaces,
                                     n \in Names}

InitGetProjectPath == Called("getProjectPath") /\ arg \in ProjectRefs

CallGetProjectPath ==
    \E r \in {getProjectPath(arg)} : Returns("getProjectPath", r)

SpecGetProjectPath == InitGetProjectPath /\ [][CallGetProjectPath]_vars

(***************************************************************************)
(* Properties.                                                             *)
(***************************************************************************)
Range(s) == {s[i] : i \in 1..Len(s)}
Returned == pc = "returned"
Failed == pc = "returned" /\ retErr # NoErr
Succeeded == pc = "returned" /\ retErr = NoErr
NoDuplicateIds(s) == \A c \in s : \A d \in s : ID(c) = ID(d) => c = d

\* C1: a call with CredPrefix or TokenRaw and without URL ends with an error
\* and a nil Configuration, and makes no remote lookup, no identity lookup,
\* no store read or write and no console read.
C1_MissingURLFailsFirst ==
    (/\ pc # "idle"
     /\ args.CredPrefix # <<>> \/ args.TokenRaw # <<>>
     /\ args.URL = <<>>)
    => /\ pc = "returned"
       /\ retErr # NoErr
       /\ retConf = None
       /\ calls = <<>>
       /\ reads = 0
       /\ lookup = None
       /\ store = store0

C1_Witness ==
    /\ pc = "returned"
    /\ args.TokenRaw # <<>>
    /\ args.CredPrefix = <<>>
    /\ args.URL = <<>>
    /\ retErr = ErrMissingURL

\* C2: a call that returns an error returns a nil Configuration and leaves
\* the credential store as it was when the call started.
C2_ErrorLeavesNothing ==
    Failed => retConf = None /\ store = store0

C2_Witness ==
    /\ Failed
    /\ retErr = <<"store credential error">>
    /\ "Store" \in Range(calls)
    /\ conf # EmptyConf

\* C3: a successful call inserts the resolved credential if and only if no
\* stored credential has its identifier, so the store never holds two
\* credentials with one identifier and a call that resolves a stored
\* identifier leaves the store unchanged.
C3_IdempotentPersistence ==
    /\ NoDuplicateIds(store)
    /\ Succeeded =>
         store = IF IdExist(store0, ID(cred[1])) THEN store0
                 ELSE store0 \cup {cred[1]}

C3_Witness ==
    /\ Succeeded
    /\ args.TokenRaw # <<>>
    /\ IdExist(store0, ID(cred[1]))
    /\ cred[1] \notin store0

BothSupplied ==
    pc # "idle" /\ args.CredPrefix # <<>> /\ args.TokenRaw # <<>>

\* C4 as stated: a call with both CredPrefix and TokenRaw fails with an
\* error without loading a credential, building a token or looking up the
\* remote project.
C4_BothFailFast ==
    BothSupplied
    => /\ "LoadWithPrefix" \notin Range(calls)
       /\ cred = None
       /\ lookup = None
       /\ Returned => retErr # NoErr

\* C4 amended: with both CredPrefix and TokenRaw the call is not rejected for
\* that; CredPrefix takes precedence: the only credential the call resolves
\* is the one loaded from the store by prefix, TokenRaw is ignored and
\* nothing is read from the console.
C4_PrefixTakesPrecedence ==
    BothSupplied
    => /\ reads = 0
       /\ "List" \notin Range(calls)
       /\ cred # None =>
            /\ "LoadWithPrefix" \in Range(calls)
            /\ PrefixMatches(store0, args.CredPrefix) = {cred[1]}
       /\ pc \in {"validateProjectURL", "persist", "panicked"} \/ Succeeded
            => cred # None

C4_Witness ==
    /\ BothSupplied
    /\ Succeeded
    /\ cred[1].Value = args.TokenRaw

\* C5 as stated: when URL is empty and no credential parameter is given, the
\* project URL comes from promptURL, which runs before the credential is
\* resolved.
C5_PromptURLWhenNoURL ==
    (/\ pc \notin {"idle", "promptURL"}
     /\ args.URL = <<>>
     /\ args.CredPrefix = <<>>
     /\ args.TokenRaw = <<>>)
    => "GetRemotes" \in Range(calls)

\* C6: when the remote lookup fails, Configure returns that failure, wrapped,
\* and a nil Configuration; when it succeeds, the id is the one the remote
\* reported.
C6_LookupResultSurfaces ==
    project # None
    => IF project[1].err # NoErr
       THEN /\ pc = "returned"
            /\ retErr = Wrap(project[1].err, "project validation")
            /\ retConf = None
       ELSE id = project[1].id

C6_Witness ==
    /\ Failed
    /\ lookup = Some(GroupProject)
    /\ project = Some([id |-> 0, err |-> <<"404 Not Found">>])

ExampleConf ==
    (ConfigKeyTarget :> target) @@ (keyProjectID :> <<"4", "2">>)
        @@ (keyGitlabBaseUrl :> ExampleBaseURL)

\* C7 as stated: with URL git@gitlab.example.com:group/project.git, base URL
\* https://gitlab.example.com and a raw token, the call looks up group/project
\* and, when the remote reports id 42, returns the Configuration
\* {target: gitlab, projectId: 42, baseUrl: https://gitlab.example.com}.
C7_EndToEndSSH ==
    (/\ Returned
     /\ args.URL = SSHRef
     /\ args.BaseURL = ExampleBaseURL
     /\ args.TokenRaw # <<>>
     /\ args.CredPrefix = <<>>)
    => /\ lookup = Some(GroupProject)
       /\ project = Some([id |-> 42, err |-> NoErr])
            => \/ retErr = NoErr /\ retConf = Some(ExampleConf)
               \/ retErr = <<"store credential error">>

\* C8: with CredPrefix, a prefix without exactly one match fails the call; a
\* loaded credential whose user differs from a set identity fails the call
\* with the user-mismatch error, without remote lookup or store write; with
\* no identity set the loaded credential is used.
C8_ByReference ==
    "LoadWithPrefix" \in Range(calls)
    => LET matches == PrefixMatches(store0, args.CredPrefix)
           c == CHOOSE m \in matches : TRUE
       IN  IF Cardinality(matches) # 1
           THEN /\ pc = "returned"
                /\ retErr = ErrLoadWithPrefix
                /\ retConf = None
           ELSE /\ (user # None /\ c.userId # user[1])
                     => /\ pc = "returned"
                        /\ retErr = ErrUserMismatch
                        /\ lookup = None
                        /\ "GetProject" \notin Range(calls)
                        /\ "Store" \notin Range(calls)
                        /\ store = store0
                /\ user = None
                     => /\ cred = Some(c)
                        /\ retErr # ErrUserMismatch

C8_Witness ==
    /\ Returned
    /\ retErr = ErrUserMismatch
    /\ user # None
    /\ cred # None
    /\ cred[1].userId # user[1]

\* C9: a resolved credential that is not a Token fails the call with the
\* unsupported-kind error, so the remote lookup is made with a Token only and
\* the call adds Tokens only to the store.
C9_TokenOnly ==
    /\ (cred # None /\ ~IsToken(cred[1]))
         => /\ pc = "returned"
            /\ retErr \in {ErrUnsupportedKind, ErrUserMismatch}
            /\ ~UserMismatch(user, cred[1]) => retErr = ErrUnsupportedKind
    /\ (lookup # None \/ pc \in {"validateProjectURL", "persist"})
         => cred # None /\ cred[1].kind = KindToken
    /\ \A c \in store \ store0 : c.kind = KindToken

C9_Witness ==
    /\ Returned
    /\ retErr = ErrUnsupportedKind
    /\ cred # None
    /\ cred[1].kind = KindLoginPassword

\* C10: the Configuration of a successful call has exactly the keys target,
\* project id and base URL, with the service tag, the decimal string of the
\* id the remote reported in this call and the BaseURL parameter, and it
\* passes ValidateConfig.
C10_ConfigurationShape ==
    Succeeded
    => /\ retConf # None
       /\ project # None
       /\ DOMAIN retConf[1] = {ConfigKeyTarget, keyProjectID, keyGitlabBaseUrl}
       /\ retConf[1][ConfigKeyTarget] = target
       /\ retConf[1][keyProjectID] = Itoa(project[1].id)
       /\ Atoi(retConf[1][keyProjectID]) = [ok |-> TRUE, n |-> project[1].id]
       /\ retConf[1][keyGitlabBaseUrl] = args.BaseURL
       /\ ValidateConfig(retConf[1]) = NoErr

C10_Witness ==
    /\ Succeeded
    /\ project = Some([id |-> 42, err |-> NoErr])
    /\ retConf = Some(ExampleConf)


\* C11: ValidateConfig accepts a mapping if and only if the target, project
\* id and base URL keys are all present and the target is the service tag,
\* rejects every other mapping with an error, and leaves the mapping as it
\* was.
C11_AcceptsIffAllKeys ==
    pc = "done" =>
        /\ result[1].err = NoErr <=>
             /\ ConfKeys \subseteq DOMAIN arg
             /\ arg[ConfigKeyTarget] = target
        /\ result[1].conf = arg


Count(s, x) == Cardinality({i \in 1..Len(s) : s[i] = x})
\* x is in s and y is nowhere before the first x
Before(s, y, x) ==
    \E i \in 1..Len(s) :
        /\ s[i] = y
        /\ \A j \in 1..i : s[j] # x

\* C12: in one run the remote lookup is made at most once, for a resolved
\* credential that is a token; the existence check is made at most once,
\* after a lookup that succeeded and a Configuration that validates; the
\* insert is made at most once, right after an existence check that found
\* nothing; a failed lookup is the last call of its run.
C12_CallOrder ==
    /\ Count(calls, "GetProject") <= 1
    /\ Count(calls, "LoadWithPrefix") <= 1
    /\ Count(calls, "IdExist") <= 1
    /\ Count(calls, "Store") <= 1
    /\ "GetProject" \in Range(calls) =>
         /\ cred # None
         /\ IsToken(cred[1])
         /\ "LoadWithPrefix" \in Range(calls) =>
              /\ "List" \notin Range(calls)
              /\ "ReadString" \notin Range(calls)
    /\ "IdExist" \in Range(calls) =>
         /\ Before(calls, "GetProject", "IdExist")
         /\ project # None
         /\ project[1].err = NoErr
         /\ ValidateConfig(conf) = NoErr
    /\ "Store" \in Range(calls) =>
         /\ \E i \in 2..Len(calls) :
                calls[i] = "Store" /\ calls[i - 1] = "IdExist"
         /\ ~IdExist(store0, ID(cred[1]))
    /\ (project # None /\ project[1].err # NoErr) =>
         /\ pc = "returned"
         /\ calls[Len(calls)] = "GetProject"

C12_Witness ==
    /\ Succeeded
    /\ calls = <<"GetUserIdentity", "GetProject", "IdExist", "Store">>
    /\ store # store0


\* the menu of promptTokenOptions has been shown: N >= 1 stored tokens
Menu == "List" \in Range(calls) /\ creds # <<>>
\* the number typed on the i-th line read
OptionAt(i) == Atoi(TrimSpace(console[i].line))
\* the i-th read delivered a number of [1, N+1]
Chosen(i) ==
    /\ console[i].err = NoErr
    /\ OptionAt(i).ok
    /\ OptionAt(i).n >= 1
    /\ OptionAt(i).n <= Len(creds) + 1
FirstChosen ==
    {i \in 1..Len(console) : Chosen(i) /\ \A j \in 1..(i - 1) : ~Chosen(j)}
\* the token built from the last line read
TokenTyped ==
    NewToken(userId, TrimSpace(console[Len(console)].line), target, runs)

\* C13: with N >= 1 stored tokens every line that is not a number of
\* [1, N+1] leads back to the menu; the first line k of [2, N+1] ends the
\* loop with the stored credential at position k-2 of the list sorted by
\* identifier; the line 1 leads to token entry and a new token; with N = 0
\* no menu is shown and the token is asked for at once.
C13_Selection ==
    /\ Menu =>
         /\ FirstChosen = {} =>
              /\ cred = None
              /\ pc \in {"promptTokenOptions", "selectOption", "returned"}
              /\ pc = "returned" => retErr \in {EOF} \cup ListErrors
         /\ \A i \in FirstChosen :
              IF OptionAt(i).n >= 2
              THEN /\ Len(console) = i
                   /\ cred = Some(SortById(List(store0, userId, target,
                                                KindToken))[OptionAt(i).n - 1])
                   /\ cred[1] \in store0
              ELSE /\ pc \notin {"promptTokenOptions", "selectOption"}
                   /\ cred # None => Len(console) > i /\ cred[1] = TokenTyped
    /\ ("List" \in Range(calls) /\ creds = <<>> /\ retErr \notin ListErrors \ {NoErr})
         => /\ pc \notin {"promptTokenOptions", "selectOption"}
            /\ cred # None => cred[1] = TokenTyped

\* "abc", "99", "2" against the two stored tokens of the user
C13_Witness ==
    /\ Len(creds) = 2
    /\ [i \in 1..Len(console) |-> console[i].line]
         = <<Line(<<"a", "b", "c">>), Line(<<"9", "9">>), Line(<<"2">>)>>
    /\ cred = Some(NewToken(User1, <<"t", "A">>, target, 0))
    /\ cred = Some(creds[1])
    /\ pc = "validateProjectURL"


\* the whole of s is made of letters, digits and hyphens, 20 at least
WholeToken(s) ==
    /\ Len(s) >= TokenLen
    /\ \A i \in 1..Len(s) : s[i] \in TokenChar
\* the first read of the current call that promptToken made, if any
FirstTokenRead ==
    IF Menu
    THEN IF \E i \in FirstChosen : OptionAt(i).n = 1
         THEN (CHOOSE i \in FirstChosen : TRUE) + 1
         ELSE Len(console) + 1
    ELSE 1

\* C14: promptToken returns a typed line only if the whole trimmed line is
\* made of letters, digits and hyphens and has 20 characters at least, and
\* asks again after every other line.
C14_WholeLineChecked ==
    \A i \in FirstTokenRead..Len(console) :
        console[i].err = NoErr =>
            IF WholeToken(TrimSpace(console[i].line))
            THEN /\ i = Len(console)
                 /\ cred = Some(TokenTyped)
            ELSE i = Len(console) => pc = "promptToken" /\ cred = None


\* the host of a remote URL once normalized as getProjectPath does: what
\* stands between "https://" and the next "/" or ":"
HostOf(ref) ==
    LET cleanUrl == Replace1(TrimSuffix(ref, <<".", "g", "i", "t">>),
                             <<"g", "i", "t", "@">>,
                             <<"h", "t", "t", "p", "s", ":", "/", "/">>)
        rest == IF HasPrefix(cleanUrl, <<"h", "t", "t", "p", "s", ":", "/", "/">>)
                THEN From(cleanUrl, 9) ELSE cleanUrl
        stops == {i \in 1..Len(rest) : rest[i] \in {"/", ":"}}
    IN  IF stops = {} THEN rest
        ELSE Upto(rest, Min(stops) - 1)

\* C15: every candidate of getValidGitlabRemoteURLs is the target host
\* followed by the project path of a remote that normalizes and is on the
\* target host; a remote on another host contributes nothing.
C15_OnlyTargetHost ==
    (pc = "done" /\ result[1].kind = "ok") =>
        \A u \in Range(result[1].urls) :
            \E i \in 1..Len(arg) :
                /\ HostOf(arg[i]) = TargetHost
                /\ getProjectPath(arg[i]).kind = "ok"
                /\ u = TargetHost \o getProjectPath(arg[i]).path


\* C16: getProjectPath maps the SSH reference git@HOST:NAMESPACE/NAME.git
\* and the HTTPS reference https://HOST/NAMESPACE/NAME, with or without
\* .git, of one project to the one path NAMESPACE/NAME.
C16_StylesAgree ==
    pc = "done" =>
        \A h \in Hosts, ns \in Namespaces, n \in Names :
            arg \in StylesOf(h, ns, n) =>
                /\ result[1].kind = "ok"
                /\ result[1].path = ns \o <<"/">> \o n

\* C17: getProjectPath ends, for every string, with a path or with
\* ErrBadProjectURL, never with a runtime panic.
C17_Total ==
    pc = "done" =>
        \/ result[1].kind = "ok"
        \/ result[1].kind = "err" /\ result[1].err = ErrBadProjectURL


\* the i-th read delivered a number of [0, N], N >= 1 candidates being shown
RemoteChosen(i) ==
    /\ validRemotes # <<>>
    /\ console[i].err = NoErr
    /\ OptionAt(i).ok
    /\ OptionAt(i).n >= 0
    /\ OptionAt(i).n <= Len(validRemotes)
FirstRemoteChosen ==
    {i \in 1..Len(console) :
        RemoteChosen(i) /\ \A j \in 1..(i - 1) : ~RemoteChosen(j)}
\* the first read of the manual entry of promptURL, if any
FirstManualRead ==
    IF validRemotes # <<>>
    THEN IF \E i \in FirstRemoteChosen : OptionAt(i).n = 0
         THEN (CHOOSE i \in FirstRemoteChosen : TRUE) + 1
         ELSE Len(console) + 1
    ELSE 1
\* promptURL has returned u to Configure
PromptReturned(u) == url = u /\ pc \in {"GetUserIdentity", "returned"}
ReadFailed == \E i \in 1..Len(console) : console[i].err # NoErr

\* C18: with N >= 1 candidates a line that is not a number of [0, N] shows
\* the menu again, a number k of [1, N] returns candidate k-1 and 0 goes to
\* manual entry; without candidates the URL is asked for at once; manual
\* entry asks again after an empty line only and returns any other line
\* trimmed; when the remotes cannot be listed promptURL fails before any
\* read.
C18_PromptURL ==
    /\ (remotes # None /\ remotes[1].err # NoErr) =>
         /\ pc = "returned"
         /\ retErr = <<"url prompt", "getting remotes">> \o remotes[1].err
         /\ console = <<>>
         /\ url = <<>>
    /\ (validRemotes # <<>> /\ FirstRemoteChosen = {} /\ ~ReadFailed) =>
         pc = "selectRemote" /\ url = <<>>
    /\ \A i \in FirstRemoteChosen :
         IF OptionAt(i).n >= 1
         THEN /\ Len(console) = i
              /\ PromptReturned(validRemotes[OptionAt(i).n])
         ELSE Len(console) = i => pc = "enterURL" /\ url = <<>>
    /\ (remotes # None /\ remotes[1].err = NoErr /\ validRemotes = <<>>
        /\ console = <<>>) => pc \in {"enterURL", "panicked"}
    /\ \A i \in FirstManualRead..Len(console) :
         console[i].err = NoErr =>
            IF TrimSpace(console[i].line) = <<>>
            THEN Len(console) = i => pc = "enterURL" /\ url = <<>>
            ELSE /\ Len(console) = i
                 /\ PromptReturned(TrimSpace(console[i].line))

\* two candidates; "x" and "7" are refused, " 2 " returns the second
C18_Witness ==
    /\ Len(validRemotes) = 2
    /\ [i \in 1..Len(console) |-> console[i].line]
         = <<Line(<<"x">>), Line(<<"7">>), Line(<<" ", "2", " ">>)>>
    /\ url = validRemotes[2]
    /\ pc = "returned"
    /\ retErr = ErrBaseURL


\* the positions of Configure's code from which its next statement runs
Running ==
    pc \in {"GetUserIdentity", "LoadWithPrefix", "promptTokenOptions",
            "selectOption", "promptToken", "validateProjectURL", "persist"}

\* C19: a failed console read is the last read of its run and ends the run
\* with that error; a run that has started is on its way or has returned,
\* with a Configuration or an error: it never stops in another way.
C19_NoSilentHang ==
    /\ \A i \in 1..Len(console) :
         console[i].err # NoErr =>
            /\ i = Len(console)
            /\ pc = "returned"
            /\ retErr = console[i].err
            /\ retConf = None
    /\ pc # "idle" => Running \/ pc = "returned"
    /\ pc = "returned" => (retErr = NoErr <=> retConf # None)


\* C20: a run whose project URL does not start with BaseURL fails at once,
\* with no identity lookup, no credential resolved or asked for, no remote
\* lookup and no store access; every remote lookup is made for a project
\* URL that starts with BaseURL.
C20_BaseURLGuard ==
    /\ (pc # "idle" /\ url # <<>>
        /\ \/ Len(args.BaseURL) > Len(url)
           \/ SubSeq(url, 1, Len(args.BaseURL)) # args.BaseURL) =>
         /\ pc = "returned"
         /\ retErr = ErrBaseURL
         /\ retConf = None
         /\ calls = <<>>
         /\ console = <<>>
         /\ user = None
         /\ cred = None
         /\ lookup = None
         /\ store = store0
    /\ "GetProject" \in Range(calls) =>
         /\ Len(args.BaseURL) <= Len(url)
         /\ SubSeq(url, 1, Len(args.BaseURL)) = args.BaseURL

C20_Witness ==
    /\ pc = "returned"
    /\ args.URL = HTTPSRef
    /\ args.BaseURL = defaultBaseURL
    /\ args.TokenRaw # <<>>
    /\ retErr = ErrBaseURL
    /\ calls = <<>>

====
